---- MODULE Spec2Model ----
(***************************************************************************)
(* Model of client/src/App.jsx: the React component App of cloud-tco.      *)
(*                                                                         *)
(* State: the useState cells comparisonData, loading, error and            *)
(* instanceTypes, the locals of the one fetchInstanceTypes invocation      *)
(* (loop position, types), the locals of every handleSubmit invocation     *)
(* (position, response), and what the network did with each request.      *)
(*                                                                         *)
(* JavaScript runs each continuation of an async function to completion,   *)
(* so one action is one continuation: the code from an event or a settled  *)
(* await up to the next await or the end of the function.                  *)
(*                                                                         *)
(* A JavaScript value that may be null is modelled as a set: Null is the   *)
(* empty set and Some(v) the singleton of v.                               *)
(***************************************************************************)
EXTENDS Integers, Sequences, FiniteSets, TLC

\* Number of submit events a behaviour may contain.
MaxSubmits == 2

Null == {}
Some(v) == {v}
TheValue(s) == CHOOSE v \in s : TRUE

----------------------------------------------------------------------------
(* The pricing service, as the client sees it.                             *)

\* const providers = ['aws', 'gcp', 'azure'];
providers == <<"aws", "gcp", "azure">>

ProviderSet == {providers[i] : i \in 1..Len(providers)}

\* Body of GET /instances/{provider}: { instance_families: { family: [..] } },
\* the object kept as the sequence of its entries in insertion order.
ServerCatalog(p) ==
  [instance_families |->
     << [key |-> "general_purpose", value |-> << <<p, "medium">>, <<p, "large">> >>],
        [key |-> "compute_optimized", value |-> << <<p, "xlarge">> >>] >>]

\* A JSON body that a failing endpoint sends along with its status.
ErrorBody == [detail |-> "Internal Server Error"]

\* One ProviderCost record of the /compare payload; costs in cents.
ProviderCost(inst, reg, compute, storage) ==
  [instance_type |-> inst, region |-> reg, hours_running |-> 24, storage_gb |-> 50,
   compute_cost |-> compute, storage_cost |-> storage, total_cost |-> compute + storage]

ResultsA ==
  << [key |-> "aws",   value |-> ProviderCost("t3.medium", "us-east-1", 3700, 500)],
     [key |-> "gcp",   value |-> ProviderCost("e2-standard-2", "us-central1", 3150, 400)],
     [key |-> "azure", value |-> ProviderCost("Standard_D2s_v3", "eastus", 4525, 500)] >>

SummaryA ==
  [cheapest_provider |-> "gcp",
   cost_breakdown |-> [aws |-> 4200, gcp |-> 3550, azure |-> 5025],
   max_savings |-> 1475, percentage_savings |-> 2935]

ResultsB ==
  << [key |-> "aws",   value |-> ProviderCost("t3.medium", "us-east-1", 3000, 500)],
     [key |-> "gcp",   value |-> ProviderCost("e2-standard-2", "us-central1", 3100, 400)],
     [key |-> "azure", value |-> ProviderCost("Standard_D2s_v3", "eastus", 3500, 500)] >>

SummaryB ==
  [cheapest_provider |-> "aws",
   cost_breakdown |-> [aws |-> 3500, gcp |-> 3500, azure |-> 4000],
   max_savings |-> 500, percentage_savings |-> 1250]

\* A ProviderCost record that lacks total_cost.
CostWithoutTotal ==
  [instance_type |-> "t3.medium", region |-> "us-east-1", hours_running |-> 24,
   storage_gb |-> 50, compute_cost |-> 3700, storage_cost |-> 500]

PayloadA == [results |-> ResultsA, comparison |-> SummaryA]
PayloadB == [results |-> ResultsB, comparison |-> SummaryB]
PayloadNoComparison == [results |-> ResultsA]
PayloadNoResults == [comparison |-> SummaryA]
PayloadMissingField ==
  [results |-> << [key |-> "aws", value |-> CostWithoutTotal] >>,
   comparison |-> SummaryA]

\* n / d rounded to the nearest integer, for n >= 0 and d > 0.
RoundDiv(n, d) == (2 * n + d) \div (2 * d)

\* Position of the first entry with the least total_cost, scanning the
\* positions from..Len(results) with best the least one seen so far.
RECURSIVE ScanCheapest(_, _, _)
ScanCheapest(results, from, best) ==
  IF from > Len(results) THEN best
  ELSE IF results[from].value.total_cost < results[best].value.total_cost
         THEN ScanCheapest(results, from + 1, from)
         ELSE ScanCheapest(results, from + 1, best)

RECURSIVE ScanDearest(_, _, _)
ScanDearest(results, from, best) ==
  IF from > Len(results) THEN best
  ELSE IF results[from].value.total_cost > results[best].value.total_cost
         THEN ScanDearest(results, from + 1, from)
         ELSE ScanDearest(results, from + 1, best)

\* The ComparisonSummary the pricing service computes for a result map:
\* cheapest provider (first key on ties), totals per provider, savings in
\* cents and percentage in hundredths of a percent. For an empty result map
\* there is no cheapest provider.
ServerSummary(results) ==
  IF results = <<>>
    THEN [cost_breakdown |-> [p \in {} |-> 0], max_savings |-> 0, percentage_savings |-> 0]
    ELSE LET lo == results[ScanCheapest(results, 1, 1)].value.total_cost
             hi == results[ScanDearest(results, 1, 1)].value.total_cost
         IN [cheapest_provider |-> results[ScanCheapest(results, 1, 1)].key,
             cost_breakdown |->
               [p \in {results[i].key : i \in 1..Len(results)} |->
                  results[CHOOSE i \in 1..Len(results) : results[i].key = p].value.total_cost],
             max_savings |-> hi - lo,
             percentage_savings |-> IF hi = 0 THEN 0 ELSE RoundDiv((hi - lo) * 10000, hi)]

\* A comparison of a single provider.
ResultsGcpOnly ==
  << [key |-> "gcp", value |-> ProviderCost("e2-standard-2", "us-central1", 3150, 400)] >>

PayloadGcpOnly == [results |-> ResultsGcpOnly, comparison |-> ServerSummary(ResultsGcpOnly)]

\* A comparison of no provider: { results: {}, comparison: {...} }.
PayloadEmpty == [results |-> <<>>, comparison |-> ServerSummary(<<>>)]

\* The JSON documents GET /compare may answer with.
ComparePayloads ==
  {PayloadA, PayloadB, PayloadGcpOnly, PayloadEmpty,
   PayloadNoComparison, PayloadNoResults, PayloadMissingField}

\* A response object: its ok flag and the value its json() resolves with
\* (Null: the body is not JSON and json() rejects).
CompareResponses ==
  [ok : {TRUE}, json : {Null} \cup {Some(d) : d \in ComparePayloads}]
    \cup [ok : {FALSE}, json : {Null, Some(ErrorBody), Some(PayloadA)}]

CatalogResponses(p) ==
  [ok : {TRUE}, json : {Null, Some(ServerCatalog(p))}]
    \cup [ok : {FALSE}, json : {Null, Some(ErrorBody)}]

\* err.message of the TypeError a rejected fetch() carries (Chrome, Firefox).
NetworkErrorMessages ==
  {"Failed to fetch", "NetworkError when attempting to fetch resource."}

\* err.message of the SyntaxError a rejected response.json() carries.
JsonErrorMessages == {"Unexpected token < in JSON at position 0"}

\* throw new Error('Failed to fetch comparison data');
FetchFailedMessage == "Failed to fetch comparison data"

----------------------------------------------------------------------------
VARIABLES
  comparisonData,  \* useState(null): Null or Some(decoded /compare body)
  loading,         \* useState(false)
  error,           \* useState(null): Null or Some(message)
  instanceTypes,   \* useState({}): provider -> catalog
  catPc,           \* fetchInstanceTypes: "init", "fetch", "json", "done", "caught"
  catIdx,          \* fetchInstanceTypes: position of the for loop in providers
  types,           \* fetchInstanceTypes: the local object types
  catalogReq,      \* per provider, the request GET /instances/{provider}
  calls,           \* the handleSubmit invocations, in the order of their submits
  formData,        \* useState({...}): the eight form fields
  compareRequests  \* the number of GET /compare requests issued so far

vars == <<comparisonData, loading, error, instanceTypes,
          catPc, catIdx, types, catalogReq, calls, compareRequests, formData>>

requestVars == <<comparisonData, loading, error, calls, compareRequests>>
catalogVars == <<instanceTypes, catPc, catIdx, types, catalogReq>>

EmptyObject == [p \in {} |-> ErrorBody]

\* A JavaScript number and a JavaScript string, kept apart.
Num(n) == [num |-> n]
Str(s) == [str |-> s]

\* useState({ aws_instance: 't3.medium', ..., hours: 24, storage_gb: 50, ... })
InitialFormData ==
  [aws_instance   |-> Str("t3.medium"),
   gcp_instance   |-> Str("e2-standard-2"),
   azure_instance |-> Str("Standard_D2s_v3"),
   hours          |-> Num(24),
   storage_gb     |-> Num(50),
   aws_region     |-> Str("us-east-1"),
   gcp_region     |-> Str("us-central1"),
   azure_region   |-> Str("eastus")]

\* The name attributes of the form's controls.
FieldNames == DOMAIN InitialFormData

\* e.target.value an input-change event of a control may carry: always a
\* string, also for the number inputs. The events of a behaviour come from
\* the hours input; the seven other controls share its handler and keep
\* their initial values.
InputValues ==
  [aws_instance   |-> {},
   gcp_instance   |-> {},
   azure_instance |-> {},
   hours          |-> {"48"},
   storage_gb     |-> {},
   aws_region     |-> {},
   gcp_region     |-> {},
   azure_region   |-> {}]

\* String(v), as URLSearchParams applies it to each value.
StringOf(v) ==
  IF "str" \in DOMAIN v THEN v.str
  ELSE CASE v.num = 24 -> "24"
         [] v.num = 50 -> "50"

\* new URLSearchParams({ instance_aws: formData.aws_instance, ... })
QueryParams(fd) ==
  [instance_aws   |-> StringOf(fd.aws_instance),
   instance_gcp   |-> StringOf(fd.gcp_instance),
   instance_azure |-> StringOf(fd.azure_instance),
   hours          |-> StringOf(fd.hours),
   storage_gb     |-> StringOf(fd.storage_gb),
   aws_region     |-> StringOf(fd.aws_region),
   gcp_region     |-> StringOf(fd.gcp_region),
   azure_region   |-> StringOf(fd.azure_region)]

\* obj[k] = v on an object kept as a function.
SetKey(obj, k, v) ==
  [x \in (DOMAIN obj) \cup {k} |-> IF x = k THEN v ELSE obj[x]]

Unissued == [state |-> "unissued", ok |-> FALSE, json |-> Null]

Init ==
  /\ comparisonData = Null
  /\ loading = FALSE
  /\ error = Null
  /\ instanceTypes = EmptyObject
  /\ catPc = "init"
  /\ catIdx = 1
  /\ types = EmptyObject
  /\ catalogReq = [p \in ProviderSet |-> Unissued]
  /\ calls = <<>>
  /\ compareRequests = 0
  /\ formData = InitialFormData

----------------------------------------------------------------------------
(* fetchInstanceTypes                                                      *)

\* fetch(`http://localhost:8000/instances/${provider}`) is issued.
IssueCatalogFetch(p) ==
  catalogReq' = [catalogReq EXCEPT ![p] = [state |-> "pending", ok |-> FALSE, json |-> Null]]

\* useEffect(() => { fetchInstanceTypes(); }, []): the body up to the first await.
FetchInstanceTypes ==
  /\ catPc = "init"
  /\ types' = EmptyObject
  /\ catIdx' = 1
  /\ catPc' = "fetch"
  /\ IssueCatalogFetch(providers[1])
  /\ UNCHANGED <<instanceTypes, requestVars, formData>>

\* The end of one loop iteration: the next provider's fetch, or after the
\* last provider setInstanceTypes(types). reqs is catalogReq as the
\* iteration leaves it.
NextProvider(newTypes, reqs) ==
  /\ types' = newTypes
  /\ IF catIdx < Len(providers)
       THEN /\ catIdx' = catIdx + 1
            /\ catPc' = "fetch"
            /\ catalogReq' = [reqs EXCEPT ![providers[catIdx + 1]] =
                                [state |-> "pending", ok |-> FALSE, json |-> Null]]
            /\ UNCHANGED instanceTypes
       ELSE /\ catIdx' = catIdx
            /\ catPc' = "done"
            /\ catalogReq' = reqs
            /\ instanceTypes' = newTypes

\* if (response.ok)
CatalogResponseOk_Always(response) == TRUE

CatalogResponseOk(response) == response.ok

\* catch (err) { console.error(...) }: the function ends, nothing is set.
CatalogCaught(reqs) ==
  /\ catPc' = "caught"
  /\ catalogReq' = reqs
  /\ UNCHANGED <<catIdx, types, instanceTypes>>

\* await fetch(...) settles for the provider of the current iteration.
CatalogFetchSettled ==
  /\ catPc = "fetch"
  /\ LET p == providers[catIdx] IN
     \/ \* the connection fails: fetch rejects
        CatalogCaught([catalogReq EXCEPT ![p] =
                         [state |-> "neterr", ok |-> FALSE, json |-> Null]])
     \/ \E response \in CatalogResponses(p) :
          LET reqs == [catalogReq EXCEPT ![p] =
                         [state |-> "responded", ok |-> response.ok,
                          json |-> response.json]]
          IN IF CatalogResponseOk(response)
               THEN /\ catPc' = "json"
                    /\ catalogReq' = reqs
                    /\ UNCHANGED <<catIdx, types, instanceTypes>>
               ELSE NextProvider(types, reqs)
  /\ UNCHANGED <<requestVars, formData>>

\* await response.json() settles: types[provider] = the decoded body.
CatalogJsonSettled ==
  /\ catPc = "json"
  /\ LET p == providers[catIdx]
         body == catalogReq[p].json
     IN IF body = Null
          THEN CatalogCaught(catalogReq)
          ELSE NextProvider(SetKey(types, p, TheValue(body)), catalogReq)
  /\ UNCHANGED <<requestVars, formData>>

----------------------------------------------------------------------------
(* handleSubmit                                                            *)

\* Rendering the results section with the stored payload d throws a
\* TypeError: a property of undefined is read (comparison.cheapest_provider
\* .toUpperCase(), cost_breakdown[..], Object.entries(results),
\* compute_cost/storage_cost/total_cost.toFixed(2)).
RenderThrows(d) ==
  IF ~({"comparison", "results"} \subseteq DOMAIN d)
    THEN TRUE
    ELSE \/ ~({"cheapest_provider", "cost_breakdown"} \subseteq DOMAIN d.comparison)
         \/ \E k \in DOMAIN d.results :
              ~({"compute_cost", "storage_cost", "total_cost"}
                  \subseteq DOMAIN d.results[k].value)

\* {comparisonData && ( ... )}: the component is on screen as long as no
\* render of it has thrown; React removes a component whose render throws,
\* and with it the form.
Mounted ==
  IF comparisonData = Null THEN TRUE ELSE ~RenderThrows(TheValue(comparisonData))

\* <button type="submit" disabled={loading}>: the form's only submit button.
SubmitEnabled_Always == TRUE

SubmitEnabled_CatalogLoaded == ~loading /\ catPc = "done"

SubmitEnabled == ~loading

\* A handleSubmit invocation at its first await: query holds the
\* parameters of its request for as long as the invocation runs.
NewCall == [pc |-> "fetch", response |-> Null, err |-> Null,
            query |-> Some(QueryParams(formData))]

\* The submit event: setLoading(true); setError(null); the query is built
\* and fetch(`/compare?...`) is issued.
Submit_KeepsError ==
  /\ Mounted
  /\ SubmitEnabled
  /\ Len(calls) < MaxSubmits
  /\ loading' = TRUE
  /\ calls' = Append(calls, NewCall)
  /\ compareRequests' = compareRequests + 1
  /\ UNCHANGED <<error, comparisonData, catalogVars, formData>>

\* A submit that does not raise the loading flag.
Submit_NoLoading ==
  /\ Mounted
  /\ SubmitEnabled
  /\ Len(calls) < MaxSubmits
  /\ error' = Null
  /\ calls' = Append(calls, NewCall)
  /\ compareRequests' = compareRequests + 1
  /\ UNCHANGED <<loading, comparisonData, catalogVars, formData>>

Submit ==
  /\ Mounted
  /\ SubmitEnabled
  /\ Len(calls) < MaxSubmits
  /\ loading' = TRUE
  /\ error' = Null
  /\ calls' = Append(calls, NewCall)
  /\ compareRequests' = compareRequests + 1
  /\ UNCHANGED <<comparisonData, catalogVars, formData>>

\* A catch block that tries the request once more.
Catch_Retries(i, response, message) ==
  /\ error' = Some(message)
  /\ loading' = FALSE
  /\ calls' = [calls EXCEPT ![i] =
                 [pc |-> "done", response |-> response, err |-> Some(message),
                  query |-> Null]]
  /\ compareRequests' = compareRequests + 1
  /\ UNCHANGED comparisonData

\* catch (err) { setError(err.message) } finally { setLoading(false) }
Catch(i, response, message) ==
  /\ error' = Some(message)
  /\ loading' = FALSE
  /\ calls' = [calls EXCEPT ![i] =
                 [pc |-> "done", response |-> response, err |-> Some(message),
                  query |-> Null]]
  /\ UNCHANGED <<comparisonData, compareRequests>>

\* if (!response.ok) throw ...
CompareResponseOk_Always(response) == TRUE

CompareResponseOk(response) == response.ok

\* await fetch(...) of invocation i settles.
CompareFetchSettled(i) ==
  /\ calls[i].pc = "fetch"
  /\ \/ \E message \in NetworkErrorMessages : Catch(i, Null, message)
     \/ \E response \in CompareResponses :
          IF CompareResponseOk(response)
            THEN /\ calls' = [calls EXCEPT ![i] =
                                [pc |-> "json", response |-> Some(response), err |-> Null,
                                 query |-> calls[i].query]]
                 /\ UNCHANGED <<comparisonData, loading, error, compareRequests>>
            ELSE Catch(i, Some(response), FetchFailedMessage)
  /\ UNCHANGED <<catalogVars, formData>>

\* { ...old, ...new } on the stored payloads.
Spread(old, new) ==
  IF old = Null THEN new
  ELSE Some([f \in DOMAIN TheValue(old) \cup DOMAIN TheValue(new) |->
               IF f \in DOMAIN TheValue(new) THEN TheValue(new)[f] ELSE TheValue(old)[f]])

\* setComparisonData(prev => ({ ...prev, ...data })) instead.
CompareJsonSettled_Merges(i) ==
  /\ calls[i].pc = "json"
  /\ LET body == TheValue(calls[i].response).json IN
     IF body = Null
       THEN \E message \in JsonErrorMessages : Catch(i, calls[i].response, message)
       ELSE /\ comparisonData' = Spread(comparisonData, body)
            /\ loading' = FALSE
            /\ calls' = [calls EXCEPT ![i].pc = "done", ![i].query = Null]
            /\ UNCHANGED <<error, compareRequests>>
  /\ UNCHANGED <<catalogVars, formData>>

\* await response.json() of invocation i settles:
\* setComparisonData(data), then finally { setLoading(false) }.
CompareJsonSettled(i) ==
  /\ calls[i].pc = "json"
  /\ LET body == TheValue(calls[i].response).json IN
     IF body = Null
       THEN \E message \in JsonErrorMessages : Catch(i, calls[i].response, message)
       ELSE /\ comparisonData' = body
            /\ loading' = FALSE
            /\ calls' = [calls EXCEPT ![i].pc = "done", ![i].query = Null]
            /\ UNCHANGED <<error, compareRequests>>
  /\ UNCHANGED <<catalogVars, formData>>

----------------------------------------------------------------------------
(* handleInputChange                                                       *)

\* A handler whose form object is the one the running requests read.
handleInputChange_Aliased(name, value) ==
  /\ Mounted
  /\ formData' = [formData EXCEPT ![name] = Str(value)]
  /\ calls' = [i \in DOMAIN calls |->
                IF calls[i].pc = "done" THEN calls[i]
                ELSE [calls[i] EXCEPT !.query = Some(QueryParams(formData'))]]
  /\ UNCHANGED <<comparisonData, loading, error, compareRequests, catalogVars>>

\* A handler that also dismisses the error message.
handleInputChange_ClearsError(name, value) ==
  /\ Mounted
  /\ formData' = [formData EXCEPT ![name] = Str(value)]
  /\ error' = Null
  /\ UNCHANGED <<comparisonData, loading, calls, compareRequests, catalogVars>>

\* An input-change event of the control name carrying value:
\* setFormData(prev => ({ ...prev, [name]: value })).
handleInputChange(name, value) ==
  /\ Mounted
  /\ formData' = [formData EXCEPT ![name] = Str(value)]
  /\ UNCHANGED <<requestVars, catalogVars>>

----------------------------------------------------------------------------
(* renderInstanceOptions                                                   *)

\* The optgroups of one provider's selector; null (no options) without an
\* entry in instanceTypes.
renderInstanceOptions(provider) ==
  IF provider \notin DOMAIN instanceTypes
    THEN <<>>
    ELSE LET families == instanceTypes[provider].instance_families IN
         [i \in 1..Len(families) |->
            [key |-> families[i].key, options |-> families[i].value]]

RECURSIVE CountOptions(_)
CountOptions(groups) ==
  IF groups = <<>> THEN 0
  ELSE Len(groups[1].options) + CountOptions(Tail(groups))

OptionCount(provider) == CountOptions(renderInstanceOptions(provider))

----------------------------------------------------------------------------
(* formatChartData, formatPieData and the winner highlight                 *)

\* const COLORS = ['#3B82F6', '#10B981', '#F59E0B', '#EF4444'];
COLORS == <<"#3B82F6", "#10B981", "#F59E0B", "#EF4444">>

\* The value undefined.
Undefined == [undefined |-> TRUE]

\* obj.name: undefined when the object has no such property.
Prop(obj, name) == IF name \in DOMAIN obj THEN obj[name] ELSE Undefined

\* provider.toUpperCase() on the provider identifiers.
ToUpperCase(str) ==
  CASE str = "aws" -> "AWS"
    [] str = "gcp" -> "GCP"
    [] str = "azure" -> "AZURE"

\* Object.keys(obj) of an object kept as the sequence of its entries.
ObjectKeys(entries) == [i \in 1..Len(entries) |-> entries[i].key]

\* array.indexOf(x): the 0-based position of the first x, or -1.
indexOf_OneBased(array, x) ==
  IF \E i \in 1..Len(array) : array[i] = x
    THEN CHOOSE i \in 1..Len(array) :
           array[i] = x /\ \A j \in 1..(i - 1) : array[j] # x
    ELSE -1

indexOf(array, x) ==
  IF \E i \in 1..Len(array) : array[i] = x
    THEN (CHOOSE i \in 1..Len(array) :
            array[i] = x /\ \A j \in 1..(i - 1) : array[j] # x) - 1
    ELSE -1

\* array[k] for a 0-based k: undefined outside the array.
ArrayAt(array, k) == IF k + 1 \in 1..Len(array) THEN array[k + 1] ELSE Undefined

\* formatChartData without the toUpperCase() of the label.
formatChartData_RawLabel ==
  IF comparisonData = Null THEN <<>>
  ELSE LET entries == TheValue(comparisonData).results IN
       [i \in 1..Len(entries) |->
          [provider |-> entries[i].key,
           compute  |-> Prop(entries[i].value, "compute_cost"),
           storage  |-> Prop(entries[i].value, "storage_cost"),
           total    |-> Prop(entries[i].value, "total_cost"),
           instance |-> Prop(entries[i].value, "instance_type")]]

\* if (!comparisonData) return [];
\* return Object.entries(comparisonData.results).map(([provider, data]) => ...)
formatChartData ==
  IF comparisonData = Null THEN <<>>
  ELSE LET entries == TheValue(comparisonData).results IN
       [i \in 1..Len(entries) |->
          [provider |-> ToUpperCase(entries[i].key),
           compute  |-> Prop(entries[i].value, "compute_cost"),
           storage  |-> Prop(entries[i].value, "storage_cost"),
           total    |-> Prop(entries[i].value, "total_cost"),
           instance |-> Prop(entries[i].value, "instance_type")]]

formatPieData ==
  IF comparisonData = Null THEN <<>>
  ELSE LET entries == TheValue(comparisonData).results IN
       [i \in 1..Len(entries) |->
          [name  |-> ToUpperCase(entries[i].key),
           value |-> Prop(entries[i].value, "total_cost"),
           color |-> ArrayAt(COLORS, indexOf(ObjectKeys(entries), entries[i].key))]]

\* The label of the Cheapest Option card:
\* comparisonData.comparison.cheapest_provider.toUpperCase()
CheapestOptionCard ==
  ToUpperCase(TheValue(comparisonData).comparison.cheapest_provider)

\* A badge on the first card instead.
isWinner_FirstCard(provider) ==
  provider = TheValue(comparisonData).results[1].key

\* const isWinner = provider === comparisonData.comparison.cheapest_provider;
isWinner(provider) ==
  provider = TheValue(comparisonData).comparison.cheapest_provider

----------------------------------------------------------------------------
(* Vocabulary of the properties.                                           *)

\* The handleSubmit invocations that have not run to their end.
InFlight == {i \in DOMAIN calls : calls[i].pc # "done"}

\* The step runs the last continuation of invocation i.
Finishes(i) == calls[i].pc # "done" /\ calls'[i].pc = "done"

\* The step runs a continuation of invocation i.
Continues(i) == calls'[i] # calls[i]

Pending == loading
Success == comparisonData # Null
Failed == error # Null

ProviderCostFields ==
  {"instance_type", "region", "hours_running", "storage_gb",
   "compute_cost", "storage_cost", "total_cost"}

SummaryFields ==
  {"cheapest_provider", "cost_breakdown", "max_savings", "percentage_savings"}

\* The structural validity the specification asks of a ComparisonResult.
WellFormed(d) ==
  /\ {"results", "comparison"} \subseteq DOMAIN d
  /\ \A k \in DOMAIN d.results : ProviderCostFields \subseteq DOMAIN d.results[k].value
  /\ SummaryFields \subseteq DOMAIN d.comparison

\* The retrieval of provider p has settled: its fetch was rejected, or
\* answered and the loop iteration that awaited it has run on.
Settled(p) ==
  /\ catalogReq[p].state \in {"neterr", "responded"}
  /\ ~(catPc = "json" /\ providers[catIdx] = p)

\* The retrieval answered with a success status and a decodable catalog.
Succeeded(p) ==
  /\ Settled(p)
  /\ catalogReq[p].state = "responded"
  /\ catalogReq[p].ok
  /\ catalogReq[p].json # Null

FailedWithStatus(p) == catalogReq[p].state = "responded" /\ ~catalogReq[p].ok

FailedWithNetworkError(p) == catalogReq[p].state = "neterr"

LoaderEnded == catPc \in {"done", "caught"}

\* The text of a form value in a query string.
AsText(v) == IF "num" \in DOMAIN v THEN (IF v.num = 24 THEN "24" ELSE "50") ELSE v.str

\* The eight parameters a request issued from the form values fd carries.
ExpectedQuery(fd) ==
  [instance_aws |-> AsText(fd.aws_instance), instance_gcp |-> AsText(fd.gcp_instance),
   instance_azure |-> AsText(fd.azure_instance), hours |-> AsText(fd.hours),
   storage_gb |-> AsText(fd.storage_gb), aws_region |-> AsText(fd.aws_region),
   gcp_region |-> AsText(fd.gcp_region), azure_region |-> AsText(fd.azure_region)]

\* The invocations that stored a result: ended without an error.
Successful == {i \in DOMAIN calls : calls[i].pc = "done" /\ calls[i].err = Null}

LastSuccessful == CHOOSE i \in Successful : \A j \in Successful : j <= i

\* A result is stored and it has a result map.
HasResultMap ==
  IF comparisonData = Null THEN FALSE
  ELSE "results" \in DOMAIN TheValue(comparisonData)

StoredResults == TheValue(comparisonData).results

\* The label the specification asks for each provider identifier.
UppercaseLabel == [aws |-> "AWS", gcp |-> "GCP", azure |-> "AZURE"]

\* The first position of the result map whose total_cost is the least.
FirstCheapest(entries) ==
  CHOOSE i \in 1..Len(entries) :
    /\ \A j \in 1..Len(entries) : entries[i].value.total_cost <= entries[j].value.total_cost
    /\ \A j \in 1..(i - 1) : entries[j].value.total_cost > entries[i].value.total_cost

----------------------------------------------------------------------------
(* Properties.                                                             *)

\* C1: while a request is Pending no comparison result is stored: a submit
\* accepted in Success discards the stored result immediately.
C1_SubmitDiscardsResult == loading => comparisonData = Null

\* C2: whenever a handleSubmit invocation ends in failure, the state it
\* leaves holds an error reason and no comparison result.
C2_FailureLeavesNoResult ==
  [][\A i \in DOMAIN calls :
       (Finishes(i) /\ calls'[i].err # Null)
         => (error' # Null /\ comparisonData' = Null)]_vars

\* C3: no two of Pending, Success and Failed hold in the same state.
C3_ExclusiveStates ==
  /\ ~(Pending /\ Success)
  /\ ~(Pending /\ Failed)
  /\ ~(Success /\ Failed)

\* C4: at most one comparison request is in flight, and while one is in
\* flight the submit control is disabled (loading is true).
C4_AtMostOneInFlight ==
  /\ Cardinality(InFlight) <= 1
  /\ InFlight # {} => loading

\* C4 witness: a second submit was accepted after the first request ended,
\* and its request is the only one in flight.
C4_Witness ==
  /\ Len(calls) >= 2
  /\ calls[1].pc = "done"
  /\ InFlight = {Len(calls)}

\* C5: every continuation of a handleSubmit invocation that writes
\* comparisonData, error or loading belongs to the most recently started
\* invocation: a response that arrives after a newer fetch has been started
\* overwrites nothing.
C5_StaleResponseWritesNothing ==
  [][\A i \in DOMAIN calls :
       (Continues(i) /\ <<comparisonData, error, loading>>' # <<comparisonData, error, loading>>)
         => i = Len(calls)]_vars

\* C5 witness: two requests have ended with different responses and the
\* stored result is the body of the newer one.
C5_Witness ==
  /\ Len(calls) >= 2
  /\ calls[1].pc = "done" /\ calls[2].pc = "done"
  /\ calls[1].response # calls[2].response
  /\ calls[2].err = Null
  /\ calls[2].response # Null
  /\ comparisonData = TheValue(calls[2].response).json

\* C6: when the comparison fetch is rejected or answered with a non-success
\* status, the invocation ends in that step with loading false and the
\* error reason set (FetchFailedMessage for a non-success status), and the
\* stored result is not written.
C6_FetchFailureEndsInFailed ==
  [][\A i \in DOMAIN calls :
       (calls[i].pc = "fetch" /\ Continues(i)
          /\ (calls'[i].response = Null \/ ~TheValue(calls'[i].response).ok))
         => /\ calls'[i].pc = "done"
            /\ loading' = FALSE
            /\ error' # Null
            /\ (calls'[i].response # Null => error' = Some(FetchFailedMessage))
            /\ comparisonData' = comparisonData]_vars

\* C6 witness: a request answered with a non-success status whose body is a
\* well-formed payload has ended; the message is shown and the body is not
\* the stored result.
C6_Witness ==
  \E i \in DOMAIN calls :
    /\ calls[i].pc = "done"
    /\ calls[i].response = Some([ok |-> FALSE, json |-> Some(PayloadA)])
    /\ error = Some(FetchFailedMessage)
    /\ ~loading
    /\ comparisonData # Some(PayloadA)

\* C7: a success response whose decoded payload is structurally invalid
\* ends the invocation with an error reason, and the stored result is
\* never such a payload.
C7_InvalidPayloadRejected ==
  /\ comparisonData # Null => WellFormed(TheValue(comparisonData))
  /\ \A i \in DOMAIN calls :
       (/\ calls[i].pc = "done"
        /\ calls[i].response # Null
        /\ TheValue(calls[i].response).ok
        /\ TheValue(calls[i].response).json # Null
        /\ ~WellFormed(TheValue(TheValue(calls[i].response).json)))
         => calls[i].err # Null

\* C8: when the loader has ended and every retrieval that did not succeed
\* failed by a network error or a non-success status, every provider's
\* retrieval was issued and every successful one is in the published catalog.
C8_FailureDoesNotBlockOthers ==
  (/\ LoaderEnded
   /\ \A p \in ProviderSet :
        catalogReq[p].state = "unissued" \/ Succeeded(p)
          \/ FailedWithStatus(p) \/ FailedWithNetworkError(p))
    => \A p \in ProviderSet :
         /\ catalogReq[p].state # "unissued"
         /\ Succeeded(p) =>
              (p \in DOMAIN instanceTypes /\ instanceTypes[p] = ServerCatalog(p))

\* C9: when one provider's retrieval was answered with a non-success status
\* and the other two succeeded, the published catalog has exactly the two
\* successful providers' entries and the failed provider's selector offers
\* no option.
C9_StatusFailureLeavesEntryAbsent ==
  \A p \in ProviderSet :
    (FailedWithStatus(p) /\ \A q \in ProviderSet \ {p} : Succeeded(q))
      => /\ DOMAIN instanceTypes = ProviderSet \ {p}
         /\ \A q \in ProviderSet \ {p} : instanceTypes[q] = ServerCatalog(q)
         /\ OptionCount(p) = 0
         /\ \A q \in ProviderSet \ {p} : OptionCount(q) = 3

\* C9 witness: gcp answered with a non-success status, aws and azure
\* succeeded, and the catalog is published.
C9_Witness ==
  /\ catPc = "done"
  /\ FailedWithStatus("gcp")
  /\ Succeeded("aws") /\ Succeeded("azure")
  /\ DOMAIN instanceTypes = {"aws", "azure"}

\* C10: the readable catalog is empty while any retrieval has not settled,
\* and once all three have settled it holds exactly the entries of the
\* successful retrievals.
C10_AtomicPublication ==
  /\ (\E p \in ProviderSet : ~Settled(p)) => instanceTypes = EmptyObject
  /\ (\A p \in ProviderSet : Settled(p)) =>
       instanceTypes = [p \in {q \in ProviderSet : Succeeded(q)} |-> ServerCatalog(p)]

\* C11: the three catalog retrievals are issued concurrently: as soon as
\* one of them has completed (answered or rejected), all three have been
\* issued.
C11_RetrievalsIssuedConcurrently ==
  (\E p \in ProviderSet : catalogReq[p].state \in {"responded", "neterr"})
    => \A q \in ProviderSet : catalogReq[q].state # "unissued"

\* C12: the outcome of the catalog retrievals never blocks submission:
\* in every state where the form is on screen and no comparison request is
\* Pending, a submit is accepted and issues a comparison fetch, whatever
\* the state of the catalog loader.
C12_CatalogNeverBlocksSubmit ==
  (Mounted /\ ~loading /\ Len(calls) < MaxSubmits)
    => ENABLED (Submit /\ compareRequests' = compareRequests + 1)

\* C12 witness: the catalog loader ended in its catch block, nothing was
\* published, no request is Pending, and a submit is accepted.
C12_Witness ==
  /\ catPc = "caught"
  /\ instanceTypes = EmptyObject
  /\ ~loading
  /\ Len(calls) < MaxSubmits
  /\ ENABLED Submit

\* C13: while a comparison request is Pending the error reason is empty.
C13_PendingHasNoError == loading => error = Null

\* C13 witness: the first request ended in Failed, a second submit was
\* accepted, and during its Pending phase the error reason is empty.
C13_Witness ==
  /\ Len(calls) = 2
  /\ calls[1].pc = "done" /\ calls[1].err # Null
  /\ calls[2].pc # "done"
  /\ loading
  /\ error = Null

\* C14: the number of GET /compare requests issued equals the number of
\* accepted submits, and a request is issued only by the step that accepts a
\* submit: a request that ended in Failed is not tried again.
C14_OneFetchPerSubmit ==
  /\ [](compareRequests = Len(calls))
  /\ [][compareRequests' # compareRequests
          => /\ Len(calls') = Len(calls) + 1
             /\ compareRequests' = compareRequests + 1]_vars

\* C14 witness: the first request ended in Failed, the user submitted again,
\* and two requests have been issued in all.
C14_Witness ==
  /\ Len(calls) = 2
  /\ calls[1].pc = "done" /\ calls[1].err # Null
  /\ compareRequests = 2

\* C15: with no stored result the chart series is empty; for a stored
\* result the chart series has one record per key of the result map, in the
\* map's order, carrying the uppercase label, compute cost, storage cost,
\* total cost and instance type of that provider.
C15_ChartSeries ==
  /\ comparisonData = Null => formatChartData = <<>>
  /\ HasResultMap =>
       /\ Len(formatChartData) = Len(StoredResults)
       /\ \A i \in 1..Len(StoredResults) :
            formatChartData[i] =
              [provider |-> UppercaseLabel[StoredResults[i].key],
               compute  |-> Prop(StoredResults[i].value, "compute_cost"),
               storage  |-> Prop(StoredResults[i].value, "storage_cost"),
               total    |-> Prop(StoredResults[i].value, "total_cost"),
               instance |-> Prop(StoredResults[i].value, "instance_type")]

\* C15 witness: the three-provider result of the example is stored and the
\* chart series has exactly three records, gcp second.
C15_Witness ==
  /\ comparisonData = Some(PayloadA)
  /\ Len(formatChartData) = 3
  /\ formatChartData[2] =
       [provider |-> "GCP", compute |-> 3150, storage |-> 400, total |-> 3550,
        instance |-> "e2-standard-2"]

\* C16: for a stored result, the i-th record of the share series carries
\* the total cost of the i-th key of the result map and the i-th colour of
\* the palette.
C16_ShareSeries ==
  HasResultMap =>
    /\ Len(formatPieData) = Len(StoredResults)
    /\ Len(StoredResults) <= Len(COLORS)
    /\ \A i \in 1..Len(StoredResults) :
         /\ formatPieData[i].value = Prop(StoredResults[i].value, "total_cost")
         /\ formatPieData[i].color = COLORS[i]

\* C16 witness: a three-provider result is stored and the third record of
\* the share series is azure's, with the third colour.
C16_Witness ==
  /\ comparisonData = Some(PayloadB)
  /\ formatPieData[3] = [name |-> "AZURE", value |-> 4000, color |-> "#F59E0B"]

\* C18: for a stored well-formed result with at least one provider, the
\* provider named on the Cheapest Option card and the only card with the
\* BEST VALUE badge is the first provider of the result map with the least
\* total_cost.
C18_WinnerIsCheapest ==
  (HasResultMap /\ WellFormed(TheValue(comparisonData)) /\ StoredResults # <<>>) =>
    /\ CheapestOptionCard = UppercaseLabel[StoredResults[FirstCheapest(StoredResults)].key]
    /\ \A i \in 1..Len(StoredResults) :
         isWinner(StoredResults[i].key) <=> i = FirstCheapest(StoredResults)

\* C18 witness: the stored result has aws and gcp tied for the least total;
\* aws, the first key, is the winner and gcp is not.
C18_Witness ==
  /\ comparisonData = Some(PayloadB)
  /\ StoredResults[1].value.total_cost = StoredResults[2].value.total_cost
  /\ isWinner("aws") /\ ~isWinner("gcp")
  /\ CheapestOptionCard = "AWS"

\* C19: a stored result with an empty result map yields empty chart and
\* share series, and rendering it raises no error.
C19_EmptyResultRenders ==
  (HasResultMap /\ StoredResults = <<>>) =>
    /\ formatChartData = <<>>
    /\ formatPieData = <<>>
    /\ ~RenderThrows(TheValue(comparisonData))

\* C20: when the loader has ended with all three retrievals settled, the
\* catalog is published with the entries of every retrieval that succeeded.
C20_SettledCatalogPublished ==
  (LoaderEnded /\ \A p \in ProviderSet : Settled(p)) =>
    /\ DOMAIN instanceTypes = {p \in ProviderSet : Succeeded(p)}
    /\ \A p \in DOMAIN instanceTypes : instanceTypes[p] = ServerCatalog(p)

\* C21: a request carries the eight form values of the moment of its
\* submit; its parameters do not change while it is in flight; and a step
\* that changes the form changes no invocation, result or error.
C21_QueryIsSnapshotOfForm ==
  [][/\ Len(calls') = Len(calls) + 1
          => calls'[Len(calls')].query = Some(ExpectedQuery(formData))
     /\ \A i \in DOMAIN calls :
          (calls[i].pc # "done" /\ calls'[i].pc # "done")
            => calls'[i].query = calls[i].query
     /\ formData' # formData
          => UNCHANGED <<calls, comparisonData, error>>]_vars

\* C21 witness: a request is in flight with the initial form values while
\* the hours field has since been changed.
C21_Witness ==
  \E i \in InFlight :
    /\ calls[i].query = Some(ExpectedQuery(InitialFormData))
    /\ TheValue(calls[i].query).hours = "24"
    /\ formData.hours = Str("48")

\* C22: the stored result is absent as long as no request has succeeded,
\* and otherwise it is exactly the decoded body of the most recent
\* successful request.
C22_ResultWrittenWhole ==
  IF Successful = {}
    THEN comparisonData = Null
    ELSE comparisonData = TheValue(calls[LastSuccessful].response).json

\* C22 witness: two requests succeeded with different bodies and the stored
\* result is the second body.
C22_Witness ==
  /\ Successful = {1, 2}
  /\ calls[1].response # calls[2].response
  /\ comparisonData = Some(PayloadB)

\* C23: once the fetch of a request has been answered, the request ends
\* with loading false and the submit control on screen and enabled; and
\* every step that ends a request, on the success, non-success-status and
\* exception paths, leaves loading false and the submit control enabled.
C23_PendingTerminates ==
  /\ \A i \in 1..MaxSubmits :
       (i \in DOMAIN calls /\ calls[i].pc = "json") ~> (Mounted /\ SubmitEnabled)
  /\ [][\A i \in DOMAIN calls : Finishes(i) => (Mounted' /\ SubmitEnabled')]_vars

\* The part of C23 about the loading flag alone.
C23_LoadingFalls ==
  /\ \A i \in 1..MaxSubmits :
       (i \in DOMAIN calls /\ calls[i].pc = "json") ~> ~loading
  /\ [][\A i \in DOMAIN calls : Finishes(i) => ~loading']_vars

\* The steps that end a request and leave no submit control store a
\* payload that is not well-formed.
C23_OnlyInvalidPayloadUnmounts ==
  [][\A i \in DOMAIN calls :
       (Finishes(i) /\ ~Mounted')
         => (comparisonData' # Null /\ ~WellFormed(TheValue(comparisonData')))]_vars

\* C24: loading is true exactly when one comparison request is
\* outstanding (issued and not yet run to its end).
C24_LoadingIffOneOutstanding == loading <=> Cardinality(InFlight) = 1

\* C24 witness: the second request is outstanding, its response being
\* decoded, and loading is true.
C24_Witness ==
  /\ InFlight = {2}
  /\ calls[2].pc = "json"
  /\ loading

\* C25: a step that changes the form data sets one field to a string and
\* changes nothing else: not another field, loading, error, the stored
\* result, the catalog, nor any request.
C25_InputChangeFrame ==
  [][formData' # formData
       => /\ \E name \in FieldNames :
               /\ "str" \in DOMAIN formData'[name]
               /\ \A other \in FieldNames \ {name} : formData'[other] = formData[other]
          /\ UNCHANGED <<loading, error, comparisonData, instanceTypes,
                         calls, compareRequests, catalogReq, catPc, catIdx, types>>]_vars

\* C25 witness: after a request ended in Failed with an earlier result
\* still stored, the hours field was changed; every other field keeps its
\* initial value.
C25_Witness ==
  /\ error # Null
  /\ comparisonData # Null
  /\ formData.hours = Str("48")
  /\ \A other \in FieldNames \ {"hours"} : formData[other] = InitialFormData[other]

----------------------------------------------------------------------------
Next ==
  \/ FetchInstanceTypes
  \/ CatalogFetchSettled
  \/ CatalogJsonSettled
  \/ Submit
  \/ \E i \in DOMAIN calls : CompareFetchSettled(i)
  \/ \E i \in DOMAIN calls : CompareJsonSettled(i)
  \/ \E name \in FieldNames : \E value \in InputValues[name] :
       handleInputChange(name, value)

Spec == Init /\ [][Next]_vars

\* The promise of response.json() settles: the body of an answered request
\* arrives or its stream fails.
LiveSpec == Spec /\ WF_vars(\E i \in DOMAIN calls : CompareJsonSettled(i))

====
